---- MODULE Spec2Model ----
(***************************************************************************)
(* A model of the DBI database wrapper of sot/ska_dbi.                     *)
(*                                                                         *)
(* Three revisions of the wrapper are in the source tree:                  *)
(*   impl = "ska_dbi"    src/ska_dbi/DBI.py   class DBI        (sqlite)    *)
(*   impl = "Ska_DBI"    src/Ska/DBI/DBI.py   class DBI (sqlite, sybase)   *)
(*   impl = "DbiSimple"  src/Ska/DBI.py       class DbiSimple (legacy)     *)
(*                                                                         *)
(* Every method is an operator from a world record (connection, table,     *)
(* current cursor, driver-call log, pending exception, return value) to    *)
(* the world after the call, so that a method that calls another one       *)
(* (fetchone -> fetch -> execute -> commit) is the composition the code    *)
(* writes.  The DB-API driver (sqlite3 / Sybase) is the environment: its   *)
(* operators are named Drv... and model one table with the columns         *)
(* (id, tstart), id being the primary key.                                 *)
(***************************************************************************)
EXTENDS Integers, Sequences, FiniteSets, TLC

VARIABLES
    impl,        \* which revision of the wrapper class the object is
    dbi,         \* self.dbi: "sqlite" or "sybase"
    numpy,       \* self.numpy
    autocommit,  \* self.autocommit
    scope,       \* "in": inside the with-block; "exited", "raised": how it was left
    conn,        \* self.conn is open
    table,       \* rows of the table as this connection sees them
    cursor,      \* self.cursor
    live,        \* the number of open cursor objects the connection has
    gens,        \* the generators of fetch the caller holds, not yet finished
    env,         \* what is on the file system: credential files, sybase, sqsh
    sqsh,        \* the Sqsh object, if one is constructed
    other,       \* a second DBI object on the same database, if one is constructed
    last         \* the last call on the object: arguments, driver calls, outcome

vars == <<impl, dbi, numpy, autocommit, scope, conn, table, cursor, live, gens,
          env, sqsh, other, last>>

----------------------------------------------------------------------------
(* Bounds of the model.                                                    *)

MaxId == 1       \* primary keys are 0..MaxId
MaxLen == 5      \* longest SQL text given to execute in SpecSplit, in tokens
MaxRows == 3     \* rows the test data of SpecData has: range(3)

Ids == 0..MaxId
\* The tstart values the tests store: tstart=2.0 + id_ and row["tstart"] = 5.
Ts == {2, 5}
DataIds == 0..(MaxRows - 1)

\* where id=100000: a key no row has.
NoSuchId == 100000

----------------------------------------------------------------------------
(* Python values.  k is the type: a native int, float or str, or a numpy   *)
(* scalar (numpy.int64, numpy.float64); v is the number (for a str, the    *)
(* number names the string).                                               *)

PyInt(n) == [k |-> "int", v |-> n]
PyFloat(n) == [k |-> "float", v |-> n]
NpInt(n) == [k |-> "npint", v |-> n]
NpFloat(n) == [k |-> "npfloat", v |-> n]
PyStr(n) == [k |-> "str", v |-> n]

\* Python's == on numbers compares the value, not the type: 5 == 5.0.
PyEq(a, b) == (a.k = "str") = (b.k = "str") /\ a.v = b.v

\* numpy scalars have tolist(); native values raise AttributeError.
HasToList(x) == x.k \in {"npint", "npfloat"}
ToList(x) == IF x.k = "npint" THEN PyInt(x.v) ELSE PyFloat(x.v)

denumpy_noconv(x) == x

denumpy(x) == IF HasToList(x) THEN ToList(x) ELSE x

----------------------------------------------------------------------------
(* Sequences helpers standing for Python built-ins.                        *)

Range(s) == {s[i] : i \in DOMAIN s}

\* zip(a, b): pairs up to the shorter length.
Min(a, b) == IF a <= b THEN a ELSE b
Zip(a, b) == [i \in 1..Min(Len(a), Len(b)) |-> [key |-> a[i], val |-> b[i]]]

\* d[key] on an insertion-ordered dict held as a sequence of items.
Lookup(items, key) == items[CHOOSE i \in DOMAIN items : items[i].key = key].val
Keys(items) == [i \in DOMAIN items |-> items[i].key]

\* sep.join(parts) on token sequences.
RECURSIVE Join(_, _)
Join(parts, sep) ==
    IF parts = <<>> THEN <<>>
    ELSE IF Len(parts) = 1 THEN <<parts[1]>>
    ELSE <<parts[1], sep>> \o Join(Tail(parts), sep)

\* The order of str comparison on the column names the model uses.
Alphabet == <<"aspect_mode", "id", "tstart">>
Rank(name) == CHOOSE i \in DOMAIN Alphabet : Alphabet[i] = name

RECURSIVE InsertSorted(_, _)
InsertSorted(x, s) ==
    IF s = <<>> THEN <<x>>
    ELSE IF Rank(x) <= Rank(Head(s)) THEN <<x>> \o s
    ELSE <<Head(s)>> \o InsertSorted(x, Tail(s))

RECURSIVE sorted(_)
sorted(s) == IF s = <<>> THEN <<>> ELSE InsertSorted(Head(s), sorted(Tail(s)))

----------------------------------------------------------------------------
(* SQL text.  A text is a sequence of tokens; ";" and "\n" are tokens of   *)
(* their own, every other token is a run of characters holding neither.    *)

NoVals == [shape |-> "None", items |-> <<>>]
TupleVals(vs) == [shape |-> "tuple", items |-> vs]
DictVals(items) == [shape |-> "dict", items |-> items]

\* str.split(";\n"): cut at every occurrence of the two-token separator.
RECURSIVE SplitFrom(_, _)
SplitFrom(s, acc) ==
    IF s = <<>> THEN <<acc>>
    ELSE IF Len(s) >= 2 /\ s[1] = ";" /\ s[2] = "\n"
         THEN <<acc>> \o SplitFrom(SubSeq(s, 3, Len(s)), <<>>)
         ELSE SplitFrom(Tail(s), Append(acc, Head(s)))

split_any_semicolon(expr) ==
    LET RECURSIVE F(_, _)
        F(s, acc) ==
            IF s = <<>> THEN <<acc>>
            ELSE IF s[1] = ";"
                 THEN <<acc>> \o F(IF Len(s) >= 2 /\ s[2] = "\n"
                                   THEN SubSeq(s, 3, Len(s)) ELSE Tail(s), <<>>)
                 ELSE F(Tail(s), Append(acc, Head(s)))
    IN F(expr, <<>>)

split(expr) == SplitFrom(expr, <<>>)

\* ' '.join(expr.splitlines()) of DbiSimple.execute: line ends become blanks.
RECURSIVE JoinLines(_)
JoinLines(s) ==
    IF s = <<>> THEN <<>>
    ELSE IF Head(s) = "\n"
         THEN (IF Tail(s) = <<>> THEN <<>> ELSE <<" ">> \o JoinLines(Tail(s)))
         ELSE <<Head(s)>> \o JoinLines(Tail(s))

----------------------------------------------------------------------------
(* The world a call acts on, and the driver-call log.                      *)

NoCursor == [st |-> "none", isq |-> FALSE, desc |-> <<>>, rows |-> <<>>]
FreshCursor == [st |-> "open", isq |-> FALSE, desc |-> <<>>, rows |-> <<>>]

NoneVal == [shape |-> "None", names |-> <<>>, rows |-> <<>>]
DictVal(items) == [shape |-> "dict", names |-> Keys(items), rows |-> <<items>>]
ListVal(rows) == [shape |-> "list", names |-> <<>>, rows |-> rows]
RecArray(names, recs) == [shape |-> "recarray", names |-> names, rows |-> recs]
GeneratorVal == [shape |-> "generator", names |-> <<>>, rows |-> <<>>]

\* The number of cursors the current call has created so far: the cursor a
\* driver call acts on is named by it (0 is the cursor the call started with).
CurNo(log) == Cardinality({i \in DOMAIN log : log[i].ev = "cursor"})

Event(w, ev, stmt, vals) ==
    [ev |-> ev, cur |-> CurNo(w.log), stmt |-> stmt, vals |-> vals]

Logged(w, ev, stmt, vals) ==
    [w EXCEPT !.log = Append(w.log, Event(w, ev, stmt, vals))]

Raise(w, e) == [w EXCEPT !.exc = e]
Return(w, v) == [w EXCEPT !.val = v]

\* The world at the start of a call on the object.
World == [conn |-> conn, table |-> table, cursor |-> cursor, live |-> live,
          log |-> <<>>, exc |-> "", val |-> NoneVal]

----------------------------------------------------------------------------
(* The DB-API driver: one table (id PRIMARY KEY NOT NULL, tstart NOT NULL). *)

TableCols == <<"id", "tstart">>

\* The statements the table is read with, each one token of SQL text:
\*   "SELECT"     select * from t
\*   "SELECT?"    select * from t where id=?
\*   "SELECT=n"   select * from t where id=n
SelectAll == "SELECT"
SelectBound == "SELECT?"
SelectId(i) == "SELECT=" \o ToString(i)
SelectNoSuchId == SelectId(NoSuchId)
SelectTstart == "SELECT:tstart"
DrvIds == Ids \cup DataIds \cup {NoSuchId}
Selects == {SelectAll, SelectBound, SelectTstart} \cup {SelectId(i) : i \in DrvIds}

\* The row tuple the driver hands back for a stored row.
DrvTuple(r) == <<PyInt(r.id), PyFloat(r.tstart)>>

\* The columns a statement selects, and the row tuple for them.
DrvCols(stmt) == IF stmt = SelectTstart THEN <<"tstart">> ELSE TableCols
DrvProject(stmt, r) == IF stmt = SelectTstart THEN <<PyFloat(r.tstart)>> ELSE DrvTuple(r)

RECURSIVE SelectSeq2(_, _)
SelectSeq2(s, id) ==
    IF s = <<>> THEN <<>>
    ELSE IF Head(s).id = id THEN <<Head(s)>> \o SelectSeq2(Tail(s), id)
    ELSE SelectSeq2(Tail(s), id)

RECURSIVE WithoutId(_, _)
WithoutId(s, id) ==
    IF s = <<>> THEN <<>>
    ELSE IF Head(s).id = id THEN WithoutId(Tail(s), id)
    ELSE <<Head(s)>> \o WithoutId(Tail(s), id)

HasId(t, id) == \E i \in DOMAIN t : t[i].id = id

\* Blanks, line ends and one closing semicolon are not part of a statement.
RECURSIVE DrvNoBlanks(_)
DrvNoBlanks(s) ==
    IF s = <<>> THEN <<>>
    ELSE IF Head(s) \in {" ", "\n"} THEN DrvNoBlanks(Tail(s))
    ELSE <<Head(s)>> \o DrvNoBlanks(Tail(s))

DrvStrip(stmt) ==
    LET s == DrvNoBlanks(stmt)
    IN IF s # <<>> /\ s[Len(s)] = ";" THEN SubSeq(s, 1, Len(s) - 1) ELSE s

\* The values the driver can bind: sqlite3 takes int and float and their
\* subclasses (numpy.float64 is one, numpy.int64 is not).
DrvBindable(v) == v.k \in {"int", "float", "str"} \/ (dbi = "sqlite" /\ v.k = "npfloat")

\* The comma-separated list that starts after position p ("(") of s.
RECURSIVE DrvList(_, _)
DrvList(s, p) ==
    IF p + 1 > Len(s) \/ s[p + 1] = ")" THEN <<>>
    ELSE IF p + 2 <= Len(s) /\ s[p + 2] = ","
         THEN <<s[p + 1]>> \o DrvList(s, p + 2)
         ELSE <<s[p + 1]>>

\* INSERT [OR REPLACE] INTO t (cols) VALUES (placeholders), parsed.
DrvInsertForm(s) ==
    LET n == Len(s)
        cols == DrvList(s, 5)
        close1 == 5 + (IF cols = <<>> THEN 0 ELSE 2 * Len(cols) - 1) + 1
        repls == IF close1 + 2 <= n THEN DrvList(s, close1 + 2) ELSE <<>>
        close2 == close1 + 2 + (IF repls = <<>> THEN 0 ELSE 2 * Len(repls) - 1) + 1
    IN [ok |-> /\ n >= 10
               /\ s[1] = "INSERT" /\ s[2] \in {"", "OR REPLACE"} /\ s[3] = "INTO"
               /\ s[4] = "t" /\ s[5] = "("
               /\ cols # <<>> /\ close1 <= n /\ s[close1] = ")"
               /\ s[close1 + 1] = "VALUES" /\ s[close1 + 2] = "("
               /\ repls # <<>> /\ close2 = n /\ s[n] = ")",
        replace |-> n >= 2 /\ s[2] = "OR REPLACE",
        cols |-> cols,
        repls |-> repls]

\* The value bound to placeholder number i, or "unbound".
DrvBound(repls, i, vals) ==
    IF dbi = "sqlite"
    THEN IF repls[i] = "?" /\ vals.shape = "tuple" /\ Len(vals.items) = Len(repls)
         THEN [ok |-> TRUE, val |-> vals.items[i]]
         ELSE [ok |-> FALSE, val |-> PyInt(0)]
    ELSE IF vals.shape = "dict" /\ \E j \in DOMAIN vals.items : vals.items[j].key = repls[i]
         THEN [ok |-> TRUE, val |-> Lookup(vals.items, repls[i])]
         ELSE [ok |-> FALSE, val |-> PyInt(0)]

DrvInsert(w, s, vals) ==
    LET f == DrvInsertForm(s)
        n == Len(f.cols)
        bound == [i \in 1..Len(f.repls) |-> DrvBound(f.repls, i, vals)]
        col(c) == bound[CHOOSE i \in 1..n : f.cols[i] = c].val
        id == col("id").v
        row == [id |-> id, tstart |-> col("tstart").v]
    IN IF ~f.ok \/ (f.replace /\ dbi # "sqlite") THEN Raise(w, "OperationalError")
       ELSE IF \E i \in 1..n : f.cols[i] \notin Range(TableCols)
            THEN Raise(w, "OperationalError")
       ELSE IF \E i, j \in 1..n : i # j /\ f.cols[i] = f.cols[j]
            THEN Raise(w, "OperationalError")
       ELSE IF Len(f.repls) # n THEN Raise(w, "OperationalError")
       ELSE IF \E i \in 1..n : ~bound[i].ok THEN Raise(w, "ProgrammingError")
       ELSE IF \E i \in 1..n : ~DrvBindable(bound[i].val) THEN Raise(w, "InterfaceError")
       ELSE IF Range(TableCols) \ Range(f.cols) # {} THEN Raise(w, "IntegrityError")
       ELSE IF HasId(w.table, id)
            THEN IF f.replace
                 THEN [w EXCEPT !.table = Append(WithoutId(w.table, id), row)]
                 ELSE Raise(w, "IntegrityError")
       ELSE [w EXCEPT !.table = Append(w.table, row)]

\* The rows of select * from t [where id=...].
DrvSelect(w, s, vals) ==
    LET all == s[1] \in {SelectAll, SelectTstart}
        marks == IF s[1] = SelectBound THEN 1 ELSE 0
        given == IF vals.shape = "None" THEN 0 ELSE Len(vals.items)
        id == IF s[1] = SelectBound THEN vals.items[1].v
              ELSE CHOOSE i \in DrvIds : s[1] = SelectId(i)
        rows == IF all THEN w.table ELSE SelectSeq2(w.table, id)
    IN IF given # marks \/ (marks = 1 /\ vals.shape # "tuple")
       THEN Raise(w, "ProgrammingError")
       ELSE IF marks = 1 /\ ~DrvBindable(vals.items[1]) THEN Raise(w, "InterfaceError")
       ELSE [w EXCEPT !.cursor = [st |-> "open", isq |-> TRUE, desc |-> DrvCols(s[1]),
                                  rows |-> [i \in DOMAIN rows |-> DrvProject(s[1], rows[i])]]]

\* cursor.execute(stmt [, vals]) on the current cursor.
DrvExecute(w, stmt, vals) ==
    LET s == DrvStrip(stmt)
        w1 == Logged(w, "execute", stmt, vals)
        w2 == [w1 EXCEPT !.cursor = FreshCursor]
        given == IF vals.shape = "None" THEN 0 ELSE Len(vals.items)
    IN IF ~w.conn \/ w.cursor.st # "open" THEN Raise(w1, "ProgrammingError")
       ELSE IF s = <<>>
            THEN IF given = 0 THEN w2 ELSE Raise(w2, "ProgrammingError")
       ELSE IF Len(s) = 1 /\ s[1] \in Selects THEN DrvSelect(w2, s, vals)
       ELSE IF s = <<"DELETE">>
            THEN IF given = 0 THEN [w2 EXCEPT !.table = <<>>]
                 ELSE Raise(w2, "ProgrammingError")
       ELSE IF s[1] = "INSERT" /\ ";" \notin Range(s) THEN DrvInsert(w2, s, vals)
       ELSE Raise(w2, "OperationalError")

\* conn.cursor(): one more open cursor object.
DrvCursor(w) ==
    IF ~w.conn THEN Raise(w, "ProgrammingError")
    ELSE [Logged(w, "cursor", <<>>, NoVals) EXCEPT
              !.log[Len(w.log) + 1].cur = CurNo(w.log) + 1,
              !.cursor = FreshCursor,
              !.live = @ + 1]

\* The cursor object old has lost its last reference: it is finalized, and
\* is closed by that if it was open.
DrvRelease(w, old) == IF old.st = "open" THEN [w EXCEPT !.live = @ - 1] ELSE w

\* conn.commit()
DrvCommit(w) ==
    IF ~w.conn THEN Raise(w, "ProgrammingError") ELSE Logged(w, "commit", <<>>, NoVals)

\* cursor.close()
DrvCursorClose(w) ==
    IF ~w.conn THEN Raise(w, "ProgrammingError")
    ELSE [Logged(w, "close", <<>>, NoVals) EXCEPT
              !.cursor = [st |-> "closed", isq |-> FALSE, desc |-> <<>>, rows |-> <<>>],
              !.live = IF w.cursor.st = "open" THEN @ - 1 ELSE @]

\* cursor.fetchone(): the next row tuple, or None when none is left.
DrvFetchone(w) ==
    IF ~w.conn \/ w.cursor.st # "open" THEN Raise(w, "ProgrammingError")
    ELSE IF w.cursor.rows = <<>> THEN Return(Logged(w, "fetchone", <<>>, NoVals), NoneVal)
    ELSE [Logged(w, "fetchone", <<>>, NoVals) EXCEPT
              !.val = [shape |-> "tuple", names |-> <<>>, rows |-> <<Head(w.cursor.rows)>>],
              !.cursor.rows = Tail(w.cursor.rows)]

\* cursor.fetchall(): every row tuple that is left.
DrvFetchall(w) ==
    IF ~w.conn \/ w.cursor.st # "open" THEN Raise(w, "ProgrammingError")
    ELSE [Logged(w, "fetchall", <<>>, NoVals) EXCEPT
              !.val = [shape |-> "tuples", names |-> <<>>, rows |-> w.cursor.rows],
              !.cursor.rows = <<>>]

\* conn.close(): the connection's view of the data is gone with it.
DrvClose(w) ==
    [w EXCEPT !.conn = FALSE, !.table = <<>>, !.live = 0,
              !.cursor = IF w.cursor.st = "none" THEN w.cursor
                         ELSE [w.cursor EXCEPT !.rows = <<>>]]

----------------------------------------------------------------------------
(* The wrapper's methods.  commit arguments are "None", "True", "False".   *)
(* Then(w, F) is the statement sequence "w; F": F runs on the world w      *)
(* leaves unless w raised, and the exception propagates otherwise.         *)

Bind(e, F(_)) == CHOOSE y \in {F(x) : x \in {e}} : TRUE
Then(e, F(_)) == Bind(e, LAMBDA w : IF w.exc # "" THEN w ELSE F(w))

Splits == impl \in {"ska_dbi", "Ska_DBI"}

\* DBI.commit
commit(w) == DrvCommit(w)

ShouldCommit_autocommit_only(c) == autocommit

\* (commit is None and self.autocommit) or commit
ShouldCommit(c) == (c = "None" /\ autocommit) \/ c = "True"

\* for subexpr in ...: self.cursor.execute(subexpr [, vals])
RECURSIVE ExecuteEach(_, _, _)
ExecuteEach(w, stmts, vals) ==
    IF stmts = <<>> THEN w
    ELSE Then(DrvExecute(w, Head(stmts), vals),
              LAMBDA w1 : ExecuteEach(w1, Tail(stmts), vals))

\* DBI.execute / DbiSimple.execute
execute_keep_cursors(w, expr, vals, c) ==
    Then(IF Splits THEN DrvCursor(w) ELSE w, LAMBDA w1 :
    Then(IF Splits THEN ExecuteEach(w1, split(expr), vals)
         ELSE DrvExecute(w1, JoinLines(expr), vals), LAMBDA w2 :
    IF ShouldCommit(c) THEN commit(w2) ELSE w2))

execute_commit_anyway(w, expr, vals, c) ==
    Then(IF Splits THEN Then(DrvCursor(w), LAMBDA w0 : DrvRelease(w0, w.cursor)) ELSE w,
         LAMBDA w1 :
    Bind(IF Splits THEN ExecuteEach(w1, split(expr), vals)
         ELSE DrvExecute(w1, JoinLines(expr), vals), LAMBDA w2 :
    IF ShouldCommit(c) THEN commit(w2) ELSE w2))

NewCursor_once(w) == IF w.cursor.st = "none" THEN DrvCursor(w) ELSE w

\* self.cursor = self.conn.cursor(): the name is bound to the new cursor
\* and the cursor it named before is released.
NewCursor(w) == Then(DrvCursor(w), LAMBDA w1 : DrvRelease(w1, w.cursor))

execute(w, expr, vals, c) ==
    Then(IF Splits THEN NewCursor(w) ELSE w, LAMBDA w1 :
    Then(IF Splits THEN ExecuteEach(w1, split(expr), vals)
         ELSE DrvExecute(w1, JoinLines(expr), vals), LAMBDA w2 :
    IF ShouldCommit(c) THEN commit(w2) ELSE w2))

CloseCursor_never(w) == w

\* self.cursor.close() where the revision has it (DbiSimple never closes).
CloseCursor(w) == IF impl = "DbiSimple" THEN w ELSE DrvCursorClose(w)

\* The generator object of DBI.fetch: pc is where it is suspended.
NewGen(expr, vals) == [pc |-> "start", expr |-> expr, vals |-> vals, cols |-> <<>>]
Finished(g) == [g EXCEPT !.pc = "done"]

FetchCommitArg_default == "None"

\* The commit argument fetch and fetchall give to execute.
FetchCommitArg == IF impl = "ska_dbi" THEN "False" ELSE "None"

\* dict(zip(cols, vals))
RowDict(cols, tuple) == Zip(cols, tuple)

\* else: if self.autocommit: self.commit(); self.cursor.close(); break
GenEnd(w) ==
    Then(IF autocommit THEN commit(w) ELSE w, LAMBDA w2 :
    Then(CloseCursor(w2), LAMBDA w3 :
    Raise(Return(w3, NoneVal), "StopIteration")))

GenLoop_skip(w, g) ==
    Bind(Then(DrvFetchone(w), LAMBDA w0 : DrvFetchone(w0)), LAMBDA w1 :
    IF w1.exc # "" THEN [w |-> w1, g |-> Finished(g)]
    ELSE IF w1.val.shape = "tuple"
         THEN [w |-> Return(w1, DictVal(RowDict(g.cols, w1.val.rows[1]))),
               g |-> [g EXCEPT !.pc = "loop"]]
    ELSE [w |-> GenEnd(w1), g |-> Finished(g)])

\* The body of the while loop of DBI.fetch, up to the next yield or the end.
GenLoop(w, g) ==
    Bind(DrvFetchone(w), LAMBDA w1 :
    IF w1.exc # "" THEN [w |-> w1, g |-> Finished(g)]
    ELSE IF w1.val.shape = "tuple"
         THEN [w |-> Return(w1, DictVal(RowDict(g.cols, w1.val.rows[1]))),
               g |-> [g EXCEPT !.pc = "loop"]]
    ELSE [w |-> GenEnd(w1), g |-> Finished(g)])

\* next() on the generator of DBI.fetch.
GenNext(w, g) ==
    IF g.pc = "done" THEN [w |-> Raise(w, "StopIteration"), g |-> g]
    ELSE IF g.pc = "loop" THEN GenLoop(w, g)
    ELSE Bind(execute(w, g.expr, g.vals, FetchCommitArg), LAMBDA w1 :
         IF w1.exc # "" THEN [w |-> w1, g |-> Finished(g)]
         ELSE IF ~w1.cursor.isq
              THEN [w |-> Raise(w1, "TypeError"), g |-> Finished(g)]
         ELSE GenLoop(w1, [g EXCEPT !.cols = w1.cursor.desc]))

fetch_eager(w, expr, vals) ==
    Then(execute(w, expr, vals, FetchCommitArg), LAMBDA w1 : Return(w1, GeneratorVal))

\* DBI.fetch, called: a generator function returns its generator object and
\* runs none of its body.
fetch(w, expr, vals) == Return(w, GeneratorVal)

fetchone_uncaught(w, expr, vals) ==
    Bind(GenNext(w, NewGen(expr, vals)), LAMBDA r :
    IF r.w.exc # "" THEN r.w
    ELSE Then(CloseCursor(r.w), LAMBDA w1 : Return(w1, r.w.val)))

\* DBI.fetchone
fetchone(w, expr, vals) ==
    Bind(GenNext(w, NewGen(expr, vals)), LAMBDA r :
    IF r.w.exc = "StopIteration" THEN Return(Raise(r.w, ""), NoneVal)
    ELSE IF r.w.exc # "" THEN r.w
    ELSE Then(CloseCursor(r.w), LAMBDA w1 : Return(w1, r.w.val)))

\* for row in db.fetch(expr, vals): the rows the loop body is run with.
RECURSIVE Iterate(_, _, _)
Iterate(w, g, out) ==
    Bind(GenNext(w, g), LAMBDA r :
    IF r.w.exc = "StopIteration" THEN Return(Raise(r.w, ""), ListVal(out))
    ELSE IF r.w.exc # "" THEN Return(r.w, ListVal(out))
    ELSE Iterate(r.w, r.g, Append(out, r.w.val.rows[1])))

fetch_all(w, expr, vals) == Iterate(w, NewGen(expr, vals), <<>>)

\* numpy.rec.fromrecords(vals, names=cols): numpy picks the column types.
NpScalar(x) == IF x.k \in {"int", "npint"} THEN NpInt(x.v) ELSE NpFloat(x.v)
FromRecords(recs, names) ==
    RecArray(names, [i \in DOMAIN recs |-> [j \in DOMAIN recs[i] |-> NpScalar(recs[i][j])]])

Shaped_numpy_only(w, cols, recs) ==
    IF numpy
    THEN IF recs = <<>> THEN Raise(w, "ValueError") ELSE Return(w, FromRecords(recs, cols))
    ELSE Return(w, ListVal([i \in DOMAIN recs |-> RowDict(cols, recs[i])]))

\* if self.numpy and vals: recarray, else: list of dicts
Shaped(w, cols, recs) ==
    IF numpy /\ recs # <<>>
    THEN Return(w, FromRecords(recs, cols))
    ELSE Return(w, ListVal([i \in DOMAIN recs |-> RowDict(cols, recs[i])]))

\* DBI.fetchall
fetchall(w, expr, vals) ==
    Then(execute(w, expr, vals, FetchCommitArg), LAMBDA w1 :
    IF ~w1.cursor.isq THEN Raise(w1, "TypeError")
    ELSE Then(DrvFetchall(w1), LAMBDA w2 :
         Then(IF autocommit THEN commit(w2) ELSE w2, LAMBDA w3 :
         Then(CloseCursor(w3), LAMBDA w4 :
         Shaped(w4, w1.cursor.desc, w2.val.rows)))))

----------------------------------------------------------------------------
(* DBI.insert.  A row is a dict or a numpy.record: rec tells which, items  *)
(* are its (key, value) pairs in the order the row holds them.             *)

Row(rec, items) == [rec |-> rec, items |-> items]
NoRow == Row(FALSE, <<>>)

InsertCols_unsorted(row) == Keys(row.items)

\* sorted(row.dtype.names) or, for a dict, sorted(row.keys())
InsertCols(row) == sorted(Keys(row.items))

InsertVals_row_order(row) ==
    [i \in DOMAIN row.items |->
        IF numpy THEN denumpy(row.items[i].val) ELSE row.items[i].val]

\* tuple(_denumpy(row[x]) for x in cols), or tuple(row[x] for x in cols)
InsertVals(row) ==
    LET cols == InsertCols(row)
    IN [i \in DOMAIN cols |->
            IF numpy THEN denumpy(Lookup(row.items, cols[i]))
            ELSE Lookup(row.items, cols[i])]

Named == impl # "ska_dbi" /\ dbi = "sybase"

\* ("?",) * len(cols), or tuple("@" + x for x in cols) for sybase
InsertRepls(cols) ==
    [i \in DOMAIN cols |-> IF Named THEN "@" \o cols[i] ELSE "?"]

\* vals as handed to execute: the tuple, or dict(zip(colrepls, vals))
InsertBinds(row) ==
    IF Named THEN DictVals(Zip(InsertRepls(InsertCols(row)), InsertVals(row)))
    ELSE TupleVals(InsertVals(row))

ReplaceStr_never(replace) == ""

\* replace and "OR REPLACE" or ""
ReplaceStr(replace) == IF replace THEN "OR REPLACE" ELSE ""

\* "INSERT %s INTO %s (%s) VALUES (%s)" % (replace_str, tablename, cols, colrepls)
InsertCmd(row, tablename, replace) ==
    <<"INSERT", ReplaceStr(replace), "INTO", tablename, "(">>
        \o Join(InsertCols(row), ",") \o <<")", "VALUES", "(">>
        \o Join(InsertRepls(InsertCols(row)), ",") \o <<")">>

\* if replace: raise ValueError (the sybase branch of Ska.DBI.DBI.insert)
ReplaceRefused(replace) == impl = "Ska_DBI" /\ dbi = "sybase" /\ replace

insert(w, row, tablename, replace, c) ==
    IF ReplaceRefused(replace) THEN Raise(w, "ValueError")
    ELSE Then(execute(w, InsertCmd(row, tablename, replace), InsertBinds(row), c),
              LAMBDA w1 : CloseCursor(w1))

\* DBI.__exit__: self.conn.close(), whatever exception the block raised.
exit_unless_exception(w, raised) == IF raised THEN w ELSE DrvClose(w)

exit(w, raised) == DrvClose(w)

----------------------------------------------------------------------------
(* The calls a program makes, with their arguments drawn from small sets.  *)

CommitArgs == {"None", "True", "False"}

\* SQL texts given to execute.
Scripts ==
    { <<SelectAll>>, <<"DELETE">>, <<"BAD">>,
      <<"DELETE", ";", "\n", SelectAll>>,
      <<"DELETE", ";", SelectAll>>,
      <<"DELETE", ";", "\n", "BAD", ";", "\n", SelectAll>>,
      <<SelectBound, ";", "\n", SelectBound>> }

ScriptVals == {NoVals, TupleVals(<<PyInt(0)>>)}

\* Queries given to fetch, fetchone and fetchall, with their bound values.
Queries ==
    {[expr |-> <<SelectAll>>, vals |-> NoVals],
     [expr |-> <<SelectNoSuchId>>, vals |-> NoVals]}
    \cup {[expr |-> <<SelectId(i)>>, vals |-> NoVals] : i \in Ids}
    \cup {[expr |-> <<SelectBound>>, vals |-> TupleVals(<<PyInt(i)>>)] : i \in Ids}

\* Rows given to insert: a dict of native values in either key order, a
\* numpy.record (as fetchall returns them), and a dict with a column missing.
RowInputs ==
    {Row(FALSE, <<[key |-> "id", val |-> PyInt(i)], [key |-> "tstart", val |-> PyFloat(t)]>>)
        : i \in Ids, t \in Ts}
    \cup {Row(FALSE, <<[key |-> "tstart", val |-> PyInt(t)], [key |-> "id", val |-> PyInt(i)]>>)
        : i \in Ids, t \in Ts}
    \cup {Row(TRUE, <<[key |-> "id", val |-> NpInt(i)], [key |-> "tstart", val |-> NpFloat(t)]>>)
        : i \in Ids, t \in Ts}
    \cup {Row(FALSE, <<[key |-> "id", val |-> PyInt(0)]>>)}

Call(op, expr, vals, c, row, replace) ==
    [op |-> op, expr |-> expr, vals |-> vals, commit |-> c, row |-> row,
     replace |-> replace, pre |-> 0, log |-> <<>>, exc |-> "", val |-> NoneVal]

\* The object after a call that left the world w; pre is the number of rows
\* the table had when the call was made.
Done(call, world) ==
    \E w \in {world} :
        /\ conn' = w.conn
        /\ table' = w.table
        /\ cursor' = w.cursor
        /\ live' = w.live
        /\ last' = [call EXCEPT !.pre = Len(table), !.log = w.log, !.exc = w.exc,
                                !.val = w.val]
        /\ UNCHANGED <<impl, dbi, numpy, autocommit, gens, env, sqsh, other>>

TypeOK ==
    /\ impl \in {"ska_dbi", "Ska_DBI", "DbiSimple"}
    /\ dbi \in {"None", "sqlite", "sybase"}
    /\ numpy \in BOOLEAN /\ autocommit \in BOOLEAN
    /\ scope \in {"none", "in", "exited", "raised"}
    /\ conn \in BOOLEAN
    /\ cursor.st \in {"none", "open", "closed"}
    /\ live \in Nat
    /\ sqsh.made \in BOOLEAN
    /\ env.sybase \in BOOLEAN /\ env.sqsh_bin \in BOOLEAN

Idle == Call("idle", <<>>, NoVals, "None", NoRow, FALSE)

\* No file system, no Sqsh object and no generator matter to the object.
NoEnv == [files |-> {}, sybase |-> FALSE, sqsh_bin |-> FALSE]
NoSqsh == [made |-> FALSE]
NoOther == [made |-> FALSE]
Alone == gens = <<>> /\ env = NoEnv /\ sqsh = NoSqsh /\ other = NoOther

\* with DBI(dbi="sqlite", numpy=..., autocommit=...) as db:
Init ==
    /\ impl = "ska_dbi"
    /\ dbi = "sqlite"
    /\ numpy \in BOOLEAN
    /\ autocommit \in BOOLEAN
    /\ scope = "in"
    /\ conn = TRUE
    /\ table = <<>>
    /\ cursor = NoCursor
    /\ live = 0
    /\ Alone
    /\ last = Idle

Execute ==
    \E expr \in Scripts, vals \in ScriptVals, c \in CommitArgs :
        /\ last = Idle
        /\ Done(Call("execute", expr, vals, c, NoRow, FALSE), execute(World, expr, vals, c))
        /\ UNCHANGED scope

Commit ==
    /\ last = Idle
    /\ Done(Call("commit", <<>>, NoVals, "None", NoRow, FALSE), commit(World))
    /\ UNCHANGED scope

\* db.fetch(expr, vals): a generator object, nothing has run yet.
Fetch ==
    \E q \in Queries :
        /\ last = Idle
        /\ Done(Call("fetch", q.expr, q.vals, "None", NoRow, FALSE),
                fetch(World, q.expr, q.vals))
        /\ UNCHANGED scope

\* for row in db.fetch(expr, vals): ...
ForFetch ==
    \E q \in Queries :
        /\ last = Idle
        /\ Done(Call("for_fetch", q.expr, q.vals, "None", NoRow, FALSE),
                fetch_all(World, q.expr, q.vals))
        /\ UNCHANGED scope

FetchOne ==
    \E q \in Queries :
        /\ last = Idle
        /\ Done(Call("fetchone", q.expr, q.vals, "None", NoRow, FALSE),
                fetchone(World, q.expr, q.vals))
        /\ UNCHANGED scope

FetchAll ==
    \E q \in Queries :
        /\ last = Idle
        /\ Done(Call("fetchall", q.expr, q.vals, "None", NoRow, FALSE),
                fetchall(World, q.expr, q.vals))
        /\ UNCHANGED scope

Insert ==
    \E row \in RowInputs, replace \in BOOLEAN, c \in CommitArgs :
        /\ last = Idle
        /\ Done(Call("insert", <<>>, NoVals, c, row, replace),
                insert(World, row, "t", replace, c))
        /\ UNCHANGED scope

\* The with-block is left, normally or by an exception raised inside it.
Exit ==
    \E raised \in BOOLEAN :
        /\ last = Idle
        /\ scope = "in"
        /\ scope' = IF raised THEN "raised" ELSE "exited"
        /\ Done(Call("exit", <<>>, NoVals, "None", NoRow, raised), exit(World, raised))

\* The caller has the outcome of the call; the object waits for the next one.
Returned ==
    /\ last # Idle
    /\ last' = Idle
    /\ UNCHANGED <<impl, dbi, numpy, autocommit, scope, conn, table, cursor, live,
                   gens, env, sqsh, other>>

Next ==
    \/ Execute \/ Commit \/ Fetch \/ ForFetch \/ FetchOne \/ FetchAll \/ Insert
    \/ Exit \/ Returned

Spec == Init /\ [][Next]_vars

----------------------------------------------------------------------------
(* SpecLegacy: the revisions that also drive sybase, Ska.DBI.DBI and the   *)
(* older DbiSimple (which makes its one cursor when it is constructed and  *)
(* is no context manager).                                                 *)

InitLegacy ==
    /\ impl \in {"Ska_DBI", "DbiSimple"}
    /\ dbi \in {"sqlite", "sybase"}
    /\ numpy \in BOOLEAN
    /\ autocommit \in BOOLEAN
    /\ scope = "in"
    /\ conn = TRUE
    /\ table = <<>>
    /\ cursor = IF impl = "DbiSimple" THEN FreshCursor ELSE NoCursor
    /\ live = (IF impl = "DbiSimple" THEN 1 ELSE 0)
    /\ Alone
    /\ last = Idle

\* DBI.__exit__ of Ska.DBI.DBI; DbiSimple has no __exit__.
ExitLegacy ==
    \E raised \in BOOLEAN :
        /\ last = Idle
        /\ scope = "in"
        /\ impl = "Ska_DBI"
        /\ scope' = IF raised THEN "raised" ELSE "exited"
        /\ Done(Call("exit", <<>>, NoVals, "None", NoRow, raised), exit(World, raised))

NextLegacy ==
    \/ Execute \/ Commit \/ Fetch \/ ForFetch \/ FetchOne \/ FetchAll \/ Insert
    \/ ExitLegacy \/ Returned

SpecLegacy == InitLegacy /\ [][NextLegacy]_vars

----------------------------------------------------------------------------
(* SpecSplit: execute on a fresh object, for every SQL text of at most     *)
(* MaxLen tokens.                                                          *)

SplitTokens == {SelectBound, "DELETE", ";", "\n"}
Texts == UNION {[1..n -> SplitTokens] : n \in 0..MaxLen}

InitSplit ==
    /\ impl = "ska_dbi"
    /\ dbi = "sqlite"
    /\ numpy = FALSE
    /\ autocommit \in BOOLEAN
    /\ scope = "in"
    /\ conn = TRUE
    /\ table = <<>>
    /\ cursor = NoCursor
    /\ live = 0
    /\ Alone
    /\ \E expr \in Texts, vals \in ScriptVals :
           last = Call("text", expr, vals, "None", NoRow, FALSE)

ExecuteText ==
    /\ last.op = "text"
    /\ Done(Call("execute", last.expr, last.vals, last.commit, NoRow, FALSE),
            execute(World, last.expr, last.vals, last.commit))
    /\ UNCHANGED scope

NextSplit == ExecuteText

SpecSplit == InitSplit /\ [][NextSplit]_vars

----------------------------------------------------------------------------
(* SpecBuild: insert on a fresh object, for rows with up to three columns  *)
(* in every key order, as a dict of native values or as a numpy.record.    *)

BuildCols == {"aspect_mode", "id", "tstart"}
KeyOrders ==
    {ks \in UNION {[1..n -> BuildCols] : n \in 1..Cardinality(BuildCols)} :
        \A i, j \in DOMAIN ks : i # j => ks[i] # ks[j]}

BuildValue(rec, key, i) ==
    IF key = "id" THEN (IF rec THEN NpInt(i) ELSE PyInt(i))
    ELSE IF key = "tstart" THEN (IF rec THEN NpFloat(i + 1) ELSE PyFloat(i + 1))
    ELSE PyStr(i + 2)

BuildRows ==
    {Row(rec, [n \in DOMAIN ks |-> [key |-> ks[n], val |-> BuildValue(rec, ks[n], i)]])
        : rec \in BOOLEAN, ks \in KeyOrders, i \in Ids}

InitBuild ==
    /\ impl \in {"ska_dbi", "Ska_DBI"}
    /\ dbi \in (IF impl = "ska_dbi" THEN {"sqlite"} ELSE {"sqlite", "sybase"})
    /\ numpy \in BOOLEAN
    /\ autocommit = TRUE
    /\ scope = "in"
    /\ conn = TRUE
    /\ table = <<>>
    /\ cursor = NoCursor
    /\ live = 0
    /\ Alone
    /\ \E row \in BuildRows, replace \in BOOLEAN :
           last = Call("row", <<>>, NoVals, "None", row, replace)

InsertRow ==
    /\ last.op = "row"
    /\ Done(Call("insert", <<>>, NoVals, last.commit, last.row, last.replace),
            insert(World, last.row, "t", last.replace, last.commit))
    /\ UNCHANGED scope

NextBuild == InsertRow

SpecBuild == InitBuild /\ [][NextBuild]_vars

----------------------------------------------------------------------------
(* SpecData: the program of the test class DBI_BaseTests: the test data is *)
(* inserted (in any order), and the table is read with the three read      *)
(* operations.                                                             *)

\* dict(id=id_, tstart=2.0 + id_, ...)
DataRow(i) ==
    Row(FALSE, <<[key |-> "id", val |-> PyInt(i)], [key |-> "tstart", val |-> PyFloat(2 + i)]>>)

DataQueries ==
    {[expr |-> <<SelectAll>>, vals |-> NoVals],
     [expr |-> <<SelectNoSuchId>>, vals |-> NoVals]}
    \cup {[expr |-> <<SelectId(i)>>, vals |-> NoVals] : i \in DataIds}

InsertData ==
    \E i \in DataIds :
        /\ last = Idle
        /\ Done(Call("insert", <<>>, NoVals, "None", DataRow(i), FALSE),
                insert(World, DataRow(i), "t", FALSE, "None"))
        /\ UNCHANGED scope

ReadAll ==
    \E q \in DataQueries :
        /\ last = Idle
        /\ Done(Call("fetchall", q.expr, q.vals, "None", NoRow, FALSE),
                fetchall(World, q.expr, q.vals))
        /\ UNCHANGED scope

ReadEach ==
    \E q \in DataQueries :
        /\ last = Idle
        /\ Done(Call("for_fetch", q.expr, q.vals, "None", NoRow, FALSE),
                fetch_all(World, q.expr, q.vals))
        /\ UNCHANGED scope

ReadOne ==
    \E q \in DataQueries :
        /\ last = Idle
        /\ Done(Call("fetchone", q.expr, q.vals, "None", NoRow, FALSE),
                fetchone(World, q.expr, q.vals))
        /\ UNCHANGED scope

NextData == InsertData \/ ReadAll \/ ReadEach \/ ReadOne \/ Returned

SpecData == Init /\ [][NextData]_vars

----------------------------------------------------------------------------
(* Construction.  SpecOpen: nothing is constructed yet; a DBI of one of    *)
(* the three revisions, and a Sqsh, are constructed with every choice of   *)
(* arguments, on every file system.                                        *)

\* Arguments that are not given are "None".
DbiArgs == {"None", "sqlite", "sybase", "oracle"}
Users == {"None", "aca_nonexistent"}
Passwds == {"None", "secret", "wrong"}

\* dbi != "sqlite" (ska_dbi), dbi not in supported_dbis (Ska.DBI)
supported_dbis == IF impl = "ska_dbi" THEN {"sqlite"} ELSE {"sqlite", "sybase"}

\* DEFAULTS[dbi].get(...) of Ska.DBI.DBI; DbiSimple has no defaults.
Default(arg, value) == IF arg = "None" THEN value ELSE arg

\* '%s-%s-%s' % (self.server, self.database, self.user)
PasswdFile(server, database, user) == server \o "-" \o database \o "-" \o user

\* f"sqsh-{self.server}-{self.database}-{self.user}"
SqshrcFile(server, database, user) == "sqsh-" \o PasswdFile(server, database, user)

\* The credential files that may be in authdir.
FileNames ==
    {PasswdFile("sybase", "aca", "aca_ops"),
     PasswdFile("sybase", "aca", "aca_nonexistent"),
     SqshrcFile("sqlsao", "axafapstat", "aca_ops"),
     SqshrcFile("sqlsao", "axafapstat", "aca_nonexistent")}

Envs == [files : SUBSET FileNames, sybase : BOOLEAN, sqsh_bin : BOOLEAN]

\* open(passwd_file).read().strip(): the password, or IOError.
ReadPasswd(w, file) ==
    IF file \in env.files
    THEN Return(Logged(w, "open", <<file>>, NoVals), [NoneVal EXCEPT !.shape = "secret"])
    ELSE Raise(Logged(w, "open", <<file>>, NoVals), "IOError")

\* dbapi2.connect(...): sqlite opens the file; sybase wants the password.
DrvConnect(w, d, passwd) ==
    IF d = "sybase" /\ passwd # "secret"
    THEN Raise(Logged(w, "connect", <<d, passwd>>, NoVals), "DatabaseError")
    ELSE [Logged(w, "connect", <<d, passwd>>, NoVals) EXCEPT !.conn = TRUE]

\* ska_dbi.DBI.__init__
new_ska_dbi(w, d) ==
    IF d # "sqlite" THEN Raise(w, "ValueError") ELSE DrvConnect(w, d, "None")

new_Ska_DBI_any_dbi(w, d, user, passwd) ==
    IF d = "sybase" /\ passwd = "None"
    THEN Bind(ReadPasswd(w, PasswdFile("sybase", "aca", Default(user, "aca_ops"))),
              LAMBDA w1 :
              IF w1.exc = "IOError" THEN Raise(w1, "NoPasswordError")
              ELSE DrvConnect(w1, d, w1.val.shape))
    ELSE DrvConnect(w, d, passwd)

\* Ska.DBI.DBI.__init__
new_Ska_DBI(w, d, user, passwd) ==
    IF d \notin supported_dbis THEN Raise(w, "ValueError")
    ELSE IF d = "sqlite" THEN DrvConnect(w, d, passwd)
    ELSE IF passwd = "None"
         THEN Bind(ReadPasswd(w, PasswdFile("sybase", "aca", Default(user, "aca_ops"))),
                   LAMBDA w1 :
                   IF w1.exc = "IOError" THEN Raise(w1, "NoPasswordError")
                   ELSE DrvConnect(w1, d, w1.val.shape))
    ELSE DrvConnect(w, d, passwd)

\* DbiSimple.__init__: a password file that cannot be read is passed over,
\* and the one cursor is made once the connection is.
new_DbiSimple(w, d, user, passwd) ==
    IF d = "None" THEN Raise(w, "TypeError")
    ELSE IF d = "sqlite" THEN Then(DrvConnect(w, d, passwd), DrvCursor)
    ELSE IF d = "sybase"
         THEN IF passwd = "None"
              THEN Bind(ReadPasswd(w, PasswdFile("None", "None", user)), LAMBDA w1 :
                   Then(DrvConnect(Raise(w1, ""), d,
                                   IF w1.exc = "" THEN w1.val.shape ELSE "None"),
                        DrvCursor))
              ELSE Then(DrvConnect(w, d, passwd), DrvCursor)
    ELSE Raise(w, "ValueError")

\* DBI(dbi=d, user=user, passwd=passwd) of the revision impl.
DBI_init(w, d, user, passwd) ==
    IF impl = "ska_dbi" THEN new_ska_dbi(w, d)
    ELSE IF impl = "Ska_DBI" THEN new_Ska_DBI(w, d, user, passwd)
    ELSE new_DbiSimple(w, d, user, passwd)

InitOpen ==
    /\ impl \in {"ska_dbi", "Ska_DBI", "DbiSimple"}
    /\ dbi = "None"
    /\ numpy = TRUE
    /\ autocommit = TRUE
    /\ scope = "none"
    /\ conn = FALSE
    /\ table = <<>>
    /\ cursor = NoCursor
    /\ live = 0
    /\ gens = <<>>
    /\ env \in Envs
    /\ sqsh = NoSqsh
    /\ other = NoOther
    /\ last = Idle

NewDBI ==
    \E d \in DbiArgs, user \in Users, passwd \in Passwds :
    \E w \in {DBI_init(World, d, user, passwd)} :
        /\ last = Idle
        /\ scope = "none"
        /\ scope' = IF w.exc = "" THEN "in" ELSE "none"
        /\ dbi' = IF w.exc = "" THEN d ELSE dbi
        /\ conn' = w.conn
        /\ cursor' = w.cursor
        /\ live' = w.live
        /\ last' = [op |-> "DBI", dbi |-> d, user |-> user, passwd |-> passwd,
                    log |-> w.log, exc |-> w.exc]
        /\ UNCHANGED <<impl, numpy, autocommit, table, gens, env, sqsh, other>>

\* Sqsh.__init__: the installation is looked at first, then the credential.
Sqsh_init_no_check(w, user, passwd, sqshrc) ==
    IF ~env.sybase THEN Raise(w, "RuntimeError")
    ELSE IF ~env.sqsh_bin THEN Raise(w, "RuntimeError")
    ELSE Return(w, [NoneVal EXCEPT !.shape = sqshrc])

Sqsh_init(w, user, passwd, sqshrc) ==
    IF ~env.sybase THEN Raise(w, "RuntimeError")
    ELSE IF ~env.sqsh_bin THEN Raise(w, "RuntimeError")
    ELSE IF passwd = "None" /\ sqshrc = "None"
         THEN IF SqshrcFile("sqlsao", "axafapstat", Default(user, "aca_ops")) \in env.files
              THEN Return(Logged(w, "exists",
                                 <<SqshrcFile("sqlsao", "axafapstat", Default(user, "aca_ops"))>>,
                                 NoVals),
                          [NoneVal EXCEPT !.shape =
                              SqshrcFile("sqlsao", "axafapstat", Default(user, "aca_ops"))])
              ELSE Raise(Logged(w, "exists",
                                <<SqshrcFile("sqlsao", "axafapstat", Default(user, "aca_ops"))>>,
                                NoVals),
                         "NoPasswordError")
    ELSE Return(w, [NoneVal EXCEPT !.shape = sqshrc])

Sqshrcs == {"None", "my_sqshrc"}

NewSqsh ==
    \E user \in Users, passwd \in Passwds, sqshrc \in Sqshrcs :
    \E w \in {Sqsh_init(World, user, passwd, sqshrc)} :
        /\ last = Idle
        /\ ~sqsh.made
        /\ sqsh' = IF w.exc = ""
                   THEN [made |-> TRUE, user |-> Default(user, "aca_ops"),
                         passwd |-> passwd, sqshrc |-> w.val.shape]
                   ELSE sqsh
        /\ last' = [op |-> "Sqsh", user |-> user, passwd |-> passwd,
                    sqshrc |-> sqshrc, log |-> w.log, exc |-> w.exc]
        /\ UNCHANGED <<impl, dbi, numpy, autocommit, scope, conn, table, cursor,
                       live, gens, env, other>>

NextOpen == NewDBI \/ NewSqsh \/ Returned

SpecOpen == InitOpen /\ [][NextOpen]_vars

----------------------------------------------------------------------------
(* Sqsh.  SpecSqsh: a Sqsh object is constructed where sqsh is installed,  *)
(* and queried; the child process ends with any return code and prints any *)
(* of the outputs below.                                                   *)

\* The data lines of an output are at most MaxOut.
MaxOut == 2

\* The output of sqsh -m csv, a sequence of tokens: fields, "," and "\n".
HeaderLine == <<"id", ",", "tstart">>
DataLine(i) == <<ToString(i), ",", ToString(2 + i)>>

RECURSIVE DataLines(_)
DataLines(k) ==
    IF k = 0 THEN <<>> ELSE DataLines(k - 1) \o <<"\n">> \o DataLine(k - 1)

Stdout(k, newline) ==
    HeaderLine \o DataLines(k) \o (IF newline THEN <<"\n">> ELSE <<>>)

Outputs == {<<>>} \cup {Stdout(k, newline) : k \in 0..MaxOut, newline \in BOOLEAN}

\* proc.returncode, stdout, stderr after proc.communicate()
Children == [rc : {0, 1, 255}, stdout : Outputs, stderr : {"", "Msg 208"}]

SqshQueries == {"select * from aiprops", "select * from aiprops where obsid=0"}

\* str.splitlines(): a line ends at "\n"; no empty line after the last one.
RECURSIVE LinesFrom(_, _)
LinesFrom(s, acc) ==
    IF s = <<>> THEN (IF acc = <<>> THEN <<>> ELSE <<acc>>)
    ELSE IF Head(s) = "\n" THEN <<acc>> \o LinesFrom(Tail(s), <<>>)
    ELSE LinesFrom(Tail(s), Append(acc, Head(s)))

splitlines(s) == LinesFrom(s, <<>>)

\* The fields of one line of CSV.
RECURSIVE FieldsFrom(_, _)
FieldsFrom(s, acc) ==
    IF s = <<>> THEN <<acc>>
    ELSE IF Head(s) = "," THEN <<acc>> \o FieldsFrom(Tail(s), "")
    ELSE FieldsFrom(Tail(s), acc \o Head(s))

Fields(line) == FieldsFrom(line, "")

\* Table.read(outlines, format="ascii.csv"): the first line is the header.
Table_read(outlines) ==
    [shape |-> "Table", names |-> Fields(outlines[1]),
     rows |-> [i \in 1..(Len(outlines) - 1) |-> Fields(outlines[i + 1])]]

\* cmd = ["env"] + envs + [SQSH_BIN, ...]
Cmd(query) ==
    <<"env", "SYBASE", "LD_LIBRARY_PATH">>
    \o (IF sqsh.sqshrc # "None" THEN <<"SQSHRC", sqsh.sqshrc>> ELSE <<>>)
    \o <<"sqsh.bin", "-X", "-S", "sqlsao", "-U", sqsh.user, "-D", "axafapstat",
         "-m", "csv", "-C", query>>
    \o (IF sqsh.passwd # "None" THEN <<"-P", sqsh.passwd>> ELSE <<>>)

\* RuntimeError("sqsh failed with return code %d: %s" % (returncode, stderr))
Failed(child) == [shape |-> "args", names |-> <<>>, rows |-> <<child.rc, child.stderr>>]

Lines(outlines) == [shape |-> "lines", names |-> <<>>, rows |-> outlines]

Sqsh_fetch_any_returncode(w, query, child) ==
    Bind(Logged(Logged(w, "Popen", Cmd(query), NoVals), "communicate", <<>>, NoVals),
         LAMBDA w1 : Return(w1, Lines(splitlines(child.stdout))))

\* Sqsh.fetch
Sqsh_fetch(w, query, child) ==
    Bind(Logged(Logged(w, "Popen", Cmd(query), NoVals), "communicate", <<>>, NoVals),
         LAMBDA w1 :
         IF child.rc # 0 THEN Raise(Return(w1, Failed(child)), "RuntimeError")
         ELSE Return(w1, Lines(splitlines(child.stdout))))

\* Sqsh.fetchall
Sqsh_fetchall(w, query, child) ==
    Then(Sqsh_fetch(w, query, child), LAMBDA w1 :
         IF Len(w1.val.rows) <= 1 THEN Return(w1, NoneVal)
         ELSE Return(w1, Table_read(w1.val.rows)))

\* tab[i]
TableRow(w, tab, i) ==
    IF i \in DOMAIN tab.rows
    THEN Return(w, [shape |-> "Row", names |-> tab.names, rows |-> <<tab.rows[i]>>])
    ELSE Raise(w, "IndexError")

Sqsh_fetchone_last(w, query, child) ==
    Then(Sqsh_fetch(w, query, child), LAMBDA w1 :
         IF Len(w1.val.rows) <= 1 THEN Return(w1, NoneVal)
         ELSE TableRow(w1, Table_read(w1.val.rows), Len(w1.val.rows) - 1))

\* Sqsh.fetchone
Sqsh_fetchone(w, query, child) ==
    Then(Sqsh_fetch(w, query, child), LAMBDA w1 :
         IF Len(w1.val.rows) <= 1 THEN Return(w1, NoneVal)
         ELSE TableRow(w1, Table_read(w1.val.rows), 1))

\* Sqsh is installed; the files of authdir are any.
InitSqsh ==
    /\ InitOpen
    /\ impl = "ska_dbi"
    /\ env.sybase
    /\ env.sqsh_bin
    /\ env.files \subseteq {SqshrcFile("sqlsao", "axafapstat", "aca_ops")}

\* The Sqsh object after a call that left the world w.
SqshDone(op, query, child, world) ==
    \E w \in {world} :
        /\ last' = [op |-> op, query |-> query, child |-> child,
                    log |-> w.log, exc |-> w.exc, val |-> w.val]
        /\ UNCHANGED <<impl, dbi, numpy, autocommit, scope, conn, table, cursor,
                       live, gens, env, sqsh, other>>

SqshFetch ==
    \E query \in SqshQueries, child \in Children :
        /\ last = Idle
        /\ sqsh.made
        /\ SqshDone("fetch", query, child, Sqsh_fetch(World, query, child))

SqshFetchall ==
    \E query \in SqshQueries, child \in Children :
        /\ last = Idle
        /\ sqsh.made
        /\ SqshDone("fetchall", query, child, Sqsh_fetchall(World, query, child))

SqshFetchone ==
    \E query \in SqshQueries, child \in Children :
        /\ last = Idle
        /\ sqsh.made
        /\ SqshDone("fetchone", query, child, Sqsh_fetchone(World, query, child))

NextSqsh == NewSqsh \/ SqshFetch \/ SqshFetchall \/ SqshFetchone \/ Returned

SpecSqsh == InitSqsh /\ [][NextSqsh]_vars

----------------------------------------------------------------------------
(* Streams.  SpecStream: the generators db.fetch returns are kept by the   *)
(* caller and advanced one next() at a time, between any other calls on    *)
(* the object; a generator may be dropped at any point.                    *)

\* The generators the caller holds at a time are at most MaxGens.
MaxGens == 2

StreamQueries ==
    {[expr |-> <<SelectAll>>, vals |-> NoVals],
     [expr |-> <<SelectNoSuchId>>, vals |-> NoVals]}

StreamScripts == {<<SelectAll>>, <<"DELETE">>}

\* The generator with the number of commits its steps have issued.
Stream(g, commits) == [g |-> g, commits |-> commits]

\* The object and the caller's generators after a step of a generator.
StreamDone(call, world, streams) ==
    \E w \in {world} :
        /\ conn' = w.conn
        /\ table' = w.table
        /\ cursor' = w.cursor
        /\ live' = w.live
        /\ gens' = streams
        /\ last' = [call EXCEPT !.pre = Len(table), !.log = w.log, !.exc = w.exc,
                                !.val = w.val]
        /\ UNCHANGED <<impl, dbi, numpy, autocommit, scope, env, sqsh, other>>

\* The call, with the generator it is made on as that generator was.
OnStream(call, k) ==
    [gen |-> k, pc |-> gens[k].g.pc, commits |-> gens[k].commits] @@ call

Commits(log) == Cardinality({i \in DOMAIN log : log[i].ev = "commit"})

\* for id_ in range(3): db.insert(dict(id=id_, ...), table): the next row.
InsertNext ==
    /\ last = Idle
    /\ Len(table) < MaxRows
    /\ Done(Call("insert", <<>>, NoVals, "None", DataRow(Len(table)), FALSE),
            insert(World, DataRow(Len(table)), "t", FALSE, "None"))
    /\ UNCHANGED scope

RunOnly ==
    \E expr \in StreamScripts, c \in CommitArgs :
        /\ last = Idle
        /\ Done(Call("execute", expr, NoVals, c, NoRow, FALSE), execute(World, expr, NoVals, c))
        /\ UNCHANGED scope

ReadStream ==
    \E q \in StreamQueries :
        /\ last = Idle
        /\ \/ Done(Call("fetchall", q.expr, q.vals, "None", NoRow, FALSE),
                   fetchall(World, q.expr, q.vals))
           \/ Done(Call("fetchone", q.expr, q.vals, "None", NoRow, FALSE),
                   fetchone(World, q.expr, q.vals))
        /\ UNCHANGED scope

\* g = db.fetch(expr, vals): the generator is made, nothing of it has run.
StartStream ==
    \E q \in StreamQueries :
        /\ last = Idle
        /\ Len(gens) < MaxGens
        /\ StreamDone(Call("fetch", q.expr, q.vals, "None", NoRow, FALSE),
                      fetch(World, q.expr, q.vals),
                      Append(gens, Stream(NewGen(q.expr, q.vals), 0)))

\* next(g)
NextRow ==
    \E k \in DOMAIN gens :
    \E r \in {GenNext(World, gens[k].g)} :
        /\ last = Idle
        /\ StreamDone(OnStream(Call("next", gens[k].g.expr, gens[k].g.vals, "None",
                                    NoRow, FALSE), k),
                      r.w,
                      [gens EXCEPT ![k] = Stream(r.g, gens[k].commits + Commits(r.w.log))])

\* The generator is dropped: GeneratorExit is raised at its yield, and
\* fetch has no handler and no finally, so nothing runs.
Abandon ==
    \E k \in DOMAIN gens :
        /\ last = Idle
        /\ StreamDone(OnStream(Call("close", gens[k].g.expr, gens[k].g.vals, "None",
                                    NoRow, FALSE), k),
                      World,
                      [i \in 1..(Len(gens) - 1) |-> IF i < k THEN gens[i] ELSE gens[i + 1]])

NextStream ==
    \/ InsertNext \/ RunOnly \/ ReadStream \/ Commit
    \/ StartStream \/ NextRow \/ Abandon \/ Returned

SpecStream == Init /\ [][NextStream]_vars

----------------------------------------------------------------------------
(* Two objects.  SpecPair: two DBI objects are open on the same database   *)
(* file, the table holds the rows of the test class, and the caller holds  *)
(* two generators of fetch on one object and one on the other, and         *)
(* advances them in any order.                                             *)

\* The rows of test_15_insert_data: id 0..n-1, tstart 2.0 + id.
Stored(n) == [i \in 1..n |-> [id |-> i - 1, tstart |-> i + 1]]

PairQueries ==
    {[expr |-> <<SelectAll>>, vals |-> NoVals],
     [expr |-> <<SelectTstart>>, vals |-> NoVals]}

WorldOf_shared(db) == World

\* The world of object db: each object has its own self.conn and self.cursor.
WorldOf(db) ==
    IF db = 1 THEN World
    ELSE [World EXCEPT !.conn = other.conn, !.cursor = other.cursor, !.live = other.live]

\* The generator of object db: clean says that no other generator of the
\* same object has run a step since this one executed its statement, and
\* got is the number of rows it has yielded while that was so.
StreamOn(db, g, commits, got, clean) ==
    [db |-> db, got |-> got, clean |-> clean] @@ Stream(g, commits)

\* The two objects and the caller's generators after a step on object db.
PairDone(call, world, db, streams) ==
    \E w \in {world} :
        /\ conn' = (IF db = 1 THEN w.conn ELSE conn)
        /\ cursor' = (IF db = 1 THEN w.cursor ELSE cursor)
        /\ live' = (IF db = 1 THEN w.live ELSE live)
        /\ other' = (IF db = 1 THEN other
                     ELSE [other EXCEPT !.conn = w.conn, !.cursor = w.cursor,
                                        !.live = w.live])
        /\ table' = w.table
        /\ gens' = streams
        /\ last' = [call EXCEPT !.pre = Len(table), !.log = w.log, !.exc = w.exc,
                                !.val = w.val]
        /\ UNCHANGED <<impl, dbi, numpy, autocommit, scope, env, sqsh>>

\* The call on generator k, with the generator as it was.
OnPair(call, k) ==
    [db |-> gens[k].db, got |-> gens[k].got, clean |-> gens[k].clean] @@ OnStream(call, k)

\* The generators after generator k of object db has run the step r.
Stepped_by(k, r) ==
    [j \in DOMAIN gens |->
        IF j = k
        THEN StreamOn(gens[k].db, r.g, gens[k].commits + Commits(r.w.log),
                      gens[k].got + (IF r.w.exc = "" /\ gens[k].clean THEN 1 ELSE 0),
                      gens[k].clean)
        ELSE IF gens[j].db = gens[k].db
        THEN [gens[j] EXCEPT !.clean = @ /\ (gens[j].g.pc = "start" \/ r.w.log = <<>>)]
        ELSE gens[j]]

\* a = db.fetch(qa); b = db.fetch(qb); c = db2.fetch(qc): two generators on
\* one object and one on the other, nothing of them has run.
InitPair ==
    /\ impl = "ska_dbi"
    /\ dbi = "sqlite"
    /\ numpy = TRUE
    /\ autocommit \in BOOLEAN
    /\ scope = "in"
    /\ conn = TRUE
    /\ table \in {Stored(n) : n \in 1..MaxRows}
    /\ cursor = NoCursor
    /\ live = 0
    /\ gens \in {<<StreamOn(1, NewGen(qa.expr, qa.vals), 0, 0, TRUE),
                   StreamOn(1, NewGen(qb.expr, qb.vals), 0, 0, TRUE),
                   StreamOn(2, NewGen(qc.expr, qc.vals), 0, 0, TRUE)>>
                 : qa \in PairQueries, qb \in PairQueries, qc \in PairQueries}
    /\ env = NoEnv
    /\ sqsh = NoSqsh
    /\ other = [made |-> TRUE, conn |-> TRUE, cursor |-> NoCursor, live |-> 0]
    /\ last = Idle

\* next(g)
StepOn ==
    \E k \in DOMAIN gens :
    \E r \in {GenNext(WorldOf(gens[k].db), gens[k].g)} :
        /\ last = Idle
        /\ PairDone(OnPair(Call("next", gens[k].g.expr, gens[k].g.vals, "None",
                                NoRow, FALSE), k),
                    r.w, gens[k].db, Stepped_by(k, r))

NextPair == StepOn \/ Returned

SpecPair == InitPair /\ [][NextPair]_vars

----------------------------------------------------------------------------
(* Properties.                                                             *)

\* The rows of a returned value as dicts, whatever its shape.
RowsOf(val) ==
    IF val.shape = "recarray" THEN [i \in DOMAIN val.rows |-> Zip(val.names, val.rows[i])]
    ELSE val.rows

\* a[col] == b[col] for every column of a.
EqualOn(a, b) ==
    \A i \in DOMAIN a :
        /\ \E j \in DOMAIN b : b[j].key = a[i].key
        /\ PyEq(a[i].val, Lookup(b, a[i].key))

SameRow(a, b) == Keys(a) = Keys(b) /\ EqualOn(a, b)
SameRows(x, y) == Len(x) = Len(y) /\ \A i \in DOMAIN x : SameRow(x[i], y[i])

\* The result set of the query of the last call, on the table as it is.
ResultSet == DrvSelect([World EXCEPT !.cursor = FreshCursor], last.expr, last.vals).cursor.rows

\* The last call was a read, on an open connection, of a query with no row.
ZeroRows ==
    /\ last.op \in {"fetchone", "fetchall", "for_fetch"}
    /\ conn
    /\ ResultSet = <<>>

Left == scope \in {"exited", "raised"}

\* C1 (as the code has it): once the with-block is left, normally or by an
\* exception, the connection is closed; every later execute, fetchone,
\* fetchall or insert, and every iteration of fetch, fails with the driver's
\* ProgrammingError, returns nothing and changes nothing, while the fetch
\* call itself returns its generator without an error.
C1_ClosedOnEveryExit ==
    Left =>
        /\ ~conn
        /\ last.op \in {"execute", "fetchone", "fetchall", "insert", "for_fetch"} =>
               /\ last.exc = "ProgrammingError"
               /\ last.val.rows = <<>>
               /\ \A i \in DOMAIN last.log : last.log[i].ev \notin {"cursor", "commit"}
        /\ last.op = "fetch" => last.exc = "" /\ last.val = GeneratorVal

\* C1 as stated: after the block is left, the fetch call fails as well.
C1_EveryCallFails ==
    Left =>
        /\ ~conn
        /\ last.op \in {"execute", "fetch", "fetchone", "fetchall", "insert"} =>
               last.exc # ""

C1_Witness ==
    /\ scope = "raised"
    /\ last.op = "fetchall"
    /\ last.exc = "ProgrammingError"

\* C2: on an open connection, fetchone of a query whose result set has no
\* row returns None and raises nothing, whatever numpy and autocommit are.
C2_FetchoneNone ==
    (last.op = "fetchone" /\ ZeroRows) =>
        last.exc = "" /\ last.val = NoneVal

C2_Witness ==
    /\ last.op = "fetchone" /\ ZeroRows
    /\ table # <<>> /\ numpy /\ ~autocommit
    /\ last.val = NoneVal

\* C3: on an open connection, for a query whose result set has no row,
\* fetchall returns a value of length 0 and a loop over fetch runs its body
\* zero times; neither raises, whatever numpy is.
C3_EmptyResult ==
    ZeroRows =>
        /\ last.op = "fetchall" =>
               /\ last.exc = ""
               /\ last.val.shape \in {"list", "recarray"}
               /\ Len(last.val.rows) = 0
        /\ last.op = "for_fetch" => last.exc = "" /\ last.val = ListVal(<<>>)

C3_Witness ==
    /\ last.op = "fetchall" /\ ZeroRows
    /\ table # <<>> /\ numpy
    /\ last.exc = "" /\ Len(last.val.rows) = 0

\* A row as fetchall of this object returns its rows: a numpy.record when
\* numpy is set, a dict of native values otherwise, with the table's columns.
FromFetchall(row) ==
    /\ Keys(row.items) = TableCols
    /\ row.rec = numpy
    /\ \A i \in DOMAIN row.items :
           row.items[i].val.k \in (IF numpy THEN {"npint", "npfloat"} ELSE {"int", "float"})

\* select * from t where id=<the id of the row given to the last insert>
SelectInserted == <<SelectId(Lookup(last.row.items, "id").v)>>

\* C4: after an insert that returned, each read operation gives the row
\* back from the same connection, equal to the inserted row on every
\* inserted column; and a row shaped as fetchall returns it (modified or
\* not) is refused only when its key is already there and replace is off.
C4_RoundTrip ==
    (last.op = "insert" /\ conn) =>
        /\ last.exc = "" =>
               LET one == fetchone(World, SelectInserted, NoVals)
                   all == fetchall(World, SelectInserted, NoVals)
                   each == fetch_all(World, SelectInserted, NoVals)
               IN /\ one.exc = "" /\ one.val.shape = "dict"
                  /\ EqualOn(last.row.items, one.val.rows[1])
                  /\ all.exc = "" /\ Len(all.val.rows) = 1
                  /\ EqualOn(last.row.items, RowsOf(all.val)[1])
                  /\ each.exc = "" /\ Len(each.val.rows) = 1
                  /\ EqualOn(last.row.items, each.val.rows[1])
        /\ (FromFetchall(last.row) /\ last.exc # "") =>
               /\ last.exc = "IntegrityError"
               /\ ~last.replace
               /\ HasId(table, Lookup(last.row.items, "id").v)

C4_Witness ==
    /\ last.op = "insert" /\ conn /\ last.exc = ""
    /\ numpy /\ FromFetchall(last.row)
    /\ Len(table) = 2
    /\ Lookup(last.row.items, "id").v # Lookup(last.row.items, "tstart").v

\* C5: on an unchanged database the three reads agree: a loop over fetch
\* sees the rows fetchall returns, in the same order, and fetchone returns
\* the first of them, or None when there is none; select * gives the rows
\* in the driver's order, so with ids 0, 1, 2 inserted in that order
\* fetchall returns exactly 3 rows and the second one has id 1.
C5_ReadsAgree ==
    (last.op = "fetchall" /\ last.exc = "") =>
        LET all == RowsOf(last.val)
            each == fetch_all(World, last.expr, last.vals)
            one == fetchone(World, last.expr, last.vals)
        IN /\ each.exc = "" /\ SameRows(each.val.rows, all)
           /\ one.exc = ""
           /\ IF all = <<>> THEN one.val = NoneVal
              ELSE one.val.shape = "dict" /\ SameRow(one.val.rows[1], all[1])
           /\ last.expr = <<SelectAll>> =>
                  /\ Len(all) = Len(table)
                  /\ \A i \in DOMAIN all : Lookup(all[i], "id").v = table[i].id
           /\ (last.expr = <<SelectAll>>
                   /\ [i \in DOMAIN table |-> table[i].id] = <<0, 1, 2>>) =>
                  Len(all) = 3 /\ Lookup(all[2], "id").v = 1

C5_Witness ==
    /\ last.op = "fetchall" /\ last.exc = "" /\ numpy
    /\ last.expr = <<SelectAll>>
    /\ [i \in DOMAIN table |-> table[i].id] = <<0, 1, 2>>
    /\ Len(last.val.rows) = 3

\* The driver calls of one kind that the last call made, in order.
Events(ev) == SelectSeq(last.log, LAMBDA e : e.ev = ev)
Places(ev) == {i \in DOMAIN last.log : last.log[i].ev = ev}

\* The row can be stored: it has the table's columns, and no value that the
\* driver cannot bind once insert has converted it.
Storable(row) ==
    /\ Range(Keys(row.items)) = Range(TableCols)
    /\ \A i \in DOMAIN row.items : numpy \/ row.items[i].val.k # "npint"

ReplaceStep ==
    (/\ last'.op = "insert" /\ last'.replace
     /\ conn /\ dbi = "sqlite"
     /\ Storable(last'.row)
     /\ HasId(table, Lookup(last'.row.items, "id").v))
    => LET key == Lookup(last'.row.items, "id").v
           new == Lookup(last'.row.items, "tstart").v
       IN /\ last'.exc = ""
          /\ Len(table') = Len(table)
          /\ Cardinality({i \in DOMAIN table' : table'[i].id = key}) = 1
          /\ \A i \in DOMAIN table' : table'[i].id = key => table'[i].tstart = new
          /\ {table'[i] : i \in {j \in DOMAIN table' : table'[j].id # key}}
                 = {table[i] : i \in {j \in DOMAIN table : table[j].id # key}}

\* C6: on sqlite, insert with replace=True of a row whose key is already
\* in the table succeeds and overwrites: afterwards exactly one row has the
\* key, it carries the new values, the other rows are as they were and the
\* number of rows is unchanged.
C6_ReplaceOverwrites == [][ReplaceStep]_vars

C6_Witness ==
    /\ last.op = "insert" /\ last.replace /\ last.exc = ""
    /\ dbi = "sqlite"
    /\ Len(table) = last.pre
    /\ Len(table) = 2
    /\ table[2].id = 0

\* C7 as stated: on sybase, insert with replace=True fails with ValueError
\* before anything reaches the driver: no cursor, no statement, no commit,
\* and the table is as it was.
C7_ReplaceRefused ==
    (dbi = "sybase" /\ last.op = "insert" /\ last.replace) =>
        /\ last.exc = "ValueError"
        /\ last.log = <<>>
        /\ Len(table) = last.pre

\* DbiSimple.insert has no such check: the INSERT OR REPLACE statement is
\* given to the sybase driver.
C7_Witness ==
    /\ impl = "DbiSimple" /\ dbi = "sybase"
    /\ last.op = "insert" /\ last.replace
    /\ Events("execute") # <<>>
    /\ Events("execute")[1].stmt[2] = "OR REPLACE"

\* Ska.DBI.DBI.insert, the later revision, does refuse.
C7_RefusedByDBI == impl = "Ska_DBI" => C7_ReplaceRefused

\* C8: an execute or insert call that runs its statements commits exactly
\* when commit is True, or commit is None and autocommit is set; no call
\* commits otherwise, none commits twice, and the commit comes after every
\* statement of the call.
C8_CommitRule ==
    last.op \in {"execute", "insert"} =>
        LET rule == last.commit = "True" \/ (last.commit = "None" /\ autocommit)
        IN /\ Len(Events("commit")) = (IF rule /\ last.exc = "" THEN 1 ELSE 0)
           /\ \A i \in Places("commit"), j \in Places("execute") : j < i
           /\ (last.exc = "" /\ last.op = "execute") =>
                  Len(Events("execute")) = Len(split(last.expr))
           /\ (last.exc = "" /\ last.op = "insert") => Len(Events("execute")) = 1

C8_Witness ==
    /\ last.op = "execute" /\ last.exc = ""
    /\ last.commit = "True" /\ ~autocommit
    /\ Len(Events("execute")) = 2
    /\ last.log[Len(last.log)].ev = "commit"

\* The number of places where a semicolon is followed by a newline.
Separators(expr) ==
    Cardinality({i \in 1..(Len(expr) - 1) : expr[i] = ";" /\ expr[i + 1] = "\n"})

\* The statements written one after the other with ";\n" between them.
RECURSIVE Rejoined(_)
Rejoined(stmts) ==
    IF stmts = <<>> THEN <<>>
    ELSE IF Len(stmts) = 1 THEN stmts[1]
    ELSE stmts[1] \o <<";", "\n">> \o Rejoined(Tail(stmts))

\* C9: execute cuts its text at every semicolon followed by a newline and
\* nowhere else: the statements given to the driver, put together again
\* with ";\n", are the text (up to the statement that failed, if one did);
\* a call that completes on a text with k separators gives k+1 statements;
\* all go, with the call's bound values, to the one cursor of the call.
C9_SplitAtSemicolonNewline ==
    last.op = "execute" =>
        LET stmts == [i \in DOMAIN Events("execute") |-> Events("execute")[i].stmt]
            text == Rejoined(stmts)
            k == Separators(last.expr)
        IN /\ Len(stmts) >= 1 /\ Len(stmts) <= k + 1
           /\ last.exc = "" => Len(stmts) = k + 1
           /\ Len(text) <= Len(last.expr)
           /\ SubSeq(last.expr, 1, Len(text)) = text
           /\ Len(stmts) = k + 1 => text = last.expr
           /\ Len(stmts) < k + 1 =>
                  SubSeq(last.expr, Len(text) + 1, Len(text) + 2) = <<";", "\n">>
           /\ \A i \in DOMAIN stmts : Separators(stmts[i]) = 0
           /\ Len(Events("cursor")) = 1 /\ last.log[1].ev = "cursor"
           /\ \A i \in Places("execute") :
                  last.log[i].cur = 1 /\ last.log[i].vals = last.vals

C9_Witness ==
    /\ last.op = "execute" /\ last.exc = ""
    /\ Separators(last.expr) = 1
    /\ Len(Events("execute")) = 2
    /\ \E i \in 1..(Len(last.expr) - 1) : last.expr[i] = ";" /\ last.expr[i + 1] # "\n"
    /\ last.vals # NoVals

\* The rows with the same items as row, in whatever order they hold them.
Reordered(row) ==
    {r \in BuildRows : r.rec = row.rec /\ Range(r.items) = Range(row.items)}

\* C10: the statement insert gives to the driver names each key of the row
\* once, in alphabetical order, with as many placeholders as columns; the
\* i-th bound value is the row's value for the i-th column, in a tuple
\* with "?" placeholders for sqlite and in a dict keyed "@"+column for
\* sybase; rows that differ only in the order of their keys give the same
\* statement and the same bound values.
C10_SortedColumns ==
    (last.op = "insert" /\ Events("execute") # <<>>) =>
        LET e == Events("execute")[1]
            f == DrvInsertForm(e.stmt)
            n == Len(last.row.items)
        IN /\ Len(Events("execute")) = 1
           /\ f.ok
           /\ Len(f.cols) = n /\ Range(f.cols) = Range(Keys(last.row.items))
           /\ \A i, j \in 1..n : i < j => Rank(f.cols[i]) < Rank(f.cols[j])
           /\ Len(f.repls) = n
           /\ Len(e.vals.items) = n
           /\ IF dbi = "sqlite"
              THEN /\ e.vals.shape = "tuple"
                   /\ \A i \in 1..n :
                          /\ f.repls[i] = "?"
                          /\ PyEq(e.vals.items[i], Lookup(last.row.items, f.cols[i]))
              ELSE /\ e.vals.shape = "dict"
                   /\ \A i \in 1..n :
                          /\ f.repls[i] = "@" \o f.cols[i]
                          /\ e.vals.items[i].key = f.repls[i]
                          /\ PyEq(e.vals.items[i].val, Lookup(last.row.items, f.cols[i]))
           /\ \A r \in Reordered(last.row) :
                  /\ InsertCmd(r, "t", last.replace) = e.stmt
                  /\ InsertBinds(r) = e.vals

C10_Witness ==
    /\ last.op = "insert" /\ Events("execute") # <<>>
    /\ dbi = "sybase"
    /\ Keys(last.row.items) = <<"tstart", "id", "aspect_mode">>
    /\ Cardinality(Reordered(last.row)) = 6

\* C11: constructing a DBI with a backend kind that is not supported, a
\* missing one included, fails before any driver connection is opened, and
\* no object with a connection results.
C11_UnsupportedFailsUnconnected ==
    (last.op = "DBI" /\ last.dbi \notin supported_dbis)
        => /\ last.exc \in {"ValueError", "TypeError"}
           /\ Places("connect") = {}
           /\ ~conn
           /\ scope = "none"

C11_Witness ==
    /\ last.op = "DBI"
    /\ impl = "Ska_DBI"
    /\ last.dbi = "oracle"
    /\ last.exc = "ValueError"
    /\ ~conn

\* The file named by the arguments of the last constructor call is missing.
NoCredentialFile ==
    IF last.op = "Sqsh"
    THEN SqshrcFile("sqlsao", "axafapstat", Default(last.user, "aca_ops")) \notin env.files
    ELSE PasswdFile("sybase", "aca", Default(last.user, "aca_ops")) \notin env.files

\* Sqsh(...) with neither a password nor a sqshrc file.
SqshBare == last.op = "Sqsh" /\ last.passwd = "None" /\ last.sqshrc = "None"

\* DBI(dbi='sybase') of Ska.DBI without a password.
SybaseBare ==
    last.op = "DBI" /\ impl = "Ska_DBI" /\ last.dbi = "sybase" /\ last.passwd = "None"

\* A constructor call with the credential given by the caller.
Explicit ==
    \/ last.op = "Sqsh" /\ ~SqshBare
    \/ last.op = "DBI" /\ impl = "Ska_DBI" /\ last.dbi = "sybase" /\ last.passwd # "None"

\* The part of C12 that holds as written: the sybase DBI without a password
\* and without a readable file fails with NoPasswordError before the driver
\* connect, and an explicit credential means that no file is consulted and
\* no NoPasswordError is raised.
C12_Rest ==
    /\ (SybaseBare /\ NoCredentialFile)
           => last.exc = "NoPasswordError" /\ Places("connect") = {} /\ ~conn
    /\ Explicit
           => /\ Places("open") = {}
              /\ Places("exists") = {}
              /\ last.exc # "NoPasswordError"

SqshCall(op) == sqsh.made /\ last.op = op /\ "child" \in DOMAIN last

\* C13: Sqsh.fetch returns the lines of the child's standard output only
\* when the child exits with code 0; on any other code it returns no lines
\* and fails with an error that carries the code and the captured error
\* stream.  Each call spawns one child and waits for it once; no retry.
C13_LinesOnlyOnZero ==
    SqshCall("fetch")
        => /\ Places("Popen") = {1}
           /\ Places("communicate") = {2}
           /\ Len(last.log) = 2
           /\ IF last.child.rc = 0
              THEN /\ last.exc = ""
                   /\ last.val = Lines(splitlines(last.child.stdout))
              ELSE /\ last.exc = "RuntimeError"
                   /\ last.val = Failed(last.child)

C13_Witness ==
    /\ SqshCall("fetch")
    /\ last.child.rc = 255
    /\ last.child.stderr = "Msg 208"
    /\ last.child.stdout = Stdout(1, TRUE)
    /\ last.exc = "RuntimeError"
    /\ last.val.rows = <<255, "Msg 208">>

\* The query matched no rows: sqsh succeeded and printed the header at most.
NoRowsPrinted == last.child.rc = 0 /\ Len(splitlines(last.child.stdout)) <= 1

\* C14: Sqsh.fetchall on a query that matches no rows does not fail and
\* returns a table of length 0.
C14_EmptyTable ==
    (SqshCall("fetchall") /\ NoRowsPrinted)
        => /\ last.exc = ""
           /\ last.val.shape = "Table"
           /\ Len(last.val.rows) = 0

C14_Witness ==
    /\ SqshCall("fetchall")
    /\ last.child.rc = 0
    /\ last.child.stdout = Stdout(0, TRUE)
    /\ last.exc = ""
    /\ last.val = NoneVal

\* C15: Sqsh.fetchone returns the first row of the table that Sqsh.fetchall
\* returns for the same output lines, and None, without an error, exactly
\* when the output has zero or one line.
C15_FirstRowOfFetchall ==
    (SqshCall("fetchone") /\ last.child.rc = 0)
        => /\ last.exc = ""
           /\ (last.val = NoneVal) = (Len(splitlines(last.child.stdout)) <= 1)
           /\ \A w \in {Sqsh_fetchall(World, last.query, last.child)} :
                  IF w.val = NoneVal THEN last.val = NoneVal
                  ELSE /\ last.val.shape = "Row"
                       /\ last.val.names = w.val.names
                       /\ last.val.rows = <<w.val.rows[1]>>

C15_Witness ==
    /\ SqshCall("fetchone")
    /\ last.child.rc = 0
    /\ last.child.stdout = Stdout(2, TRUE)
    /\ last.val = [shape |-> "Row", names |-> <<"id", "tstart">>, rows |-> <<<<"0", "2">>>>]


\* The same fetchall, made again on the object as it is now, returns what
\* the last call returned and leaves the rows as they are.
Again ==
    \A w \in {fetchall(World, last.expr, last.vals)} :
        /\ w.exc = ""
        /\ w.val = last.val
        /\ w.table = table

\* C16: fetchall does not change the stored rows, and a second fetchall
\* with the same query, made right after the first with no write between,
\* returns the same number of rows with the same content in the same order.
C16_ReadsIdempotent ==
    [][last'.op = "fetchall" => (table' = table /\ (last'.exc = "" => Again'))]_vars

C16_Witness ==
    /\ last.op = "fetchall"
    /\ last.exc = ""
    /\ last.expr = <<SelectAll>>
    /\ Len(last.val.rows) = 2
    /\ Again

\* C17: the shape of the value fetchall returns is selected by the numpy
\* flag alone: a record array with the flag set, a list of dicts with the
\* flag clear, whatever the number of rows.
C17_ShapeByFlag ==
    (last.op = "fetchall" /\ last.exc = "")
        => last.val.shape = (IF numpy THEN "recarray" ELSE "list")

C17_Witness ==
    /\ last.op = "fetchall"
    /\ last.exc = ""
    /\ numpy
    /\ last.expr = <<SelectNoSuchId>>
    /\ last.val = ListVal(<<>>)


\* The last call was next() on a generator that had not ended.
Stepped == last.op = "next" /\ last.pc # "done"

\* The step found no row left and ended the stream.
Exhausted == Stepped /\ last.exc = "StopIteration"

\* The commit of the step, if any, comes after its last fetchone.
CommitAtEnd ==
    \A i \in Places("commit") : \A j \in DOMAIN last.log :
        last.log[j].ev \in {"execute", "fetchone"} => j < i

\* C18: a fetch stream commits only at exhaustion.  A step that yields a
\* row, the first one with its execute included, issues no commit; the step
\* past the last row issues one commit if autocommit is on and none
\* otherwise, closes the cursor and ends the stream; a stream dropped before
\* that, the one of a fetchone that found a row included, has issued none.
C18_CommitOnlyAtExhaustion ==
    /\ (Stepped /\ last.exc = "") => Places("commit") = {}
    /\ Exhausted
           => /\ Commits(last.log) = (IF autocommit THEN 1 ELSE 0)
              /\ CommitAtEnd
              /\ cursor.st = "closed"
              /\ gens[last.gen].g.pc = "done"
    /\ (Stepped /\ last.exc \notin {"", "StopIteration"}) => Places("commit") = {}
    /\ (last.op = "next" /\ last.pc = "done") => last.log = <<>>
    /\ (last.op = "close" /\ last.pc # "done") => last.commits = 0 /\ last.log = <<>>
    /\ (last.op = "fetchone" /\ last.exc = "" /\ last.val # NoneVal)
           => Places("commit") = {}
    /\ (last.op = "fetchone" /\ last.exc = "" /\ last.val = NoneVal)
           => Commits(last.log) = (IF autocommit THEN 1 ELSE 0) /\ CommitAtEnd
    /\ \A k \in DOMAIN gens :
           /\ gens[k].commits <= 1
           /\ (gens[k].g.pc # "done" \/ ~autocommit) => gens[k].commits = 0

C18_Witness ==
    /\ Exhausted
    /\ autocommit
    /\ last.pc = "loop"
    /\ last.expr = <<SelectAll>>
    /\ Commits(last.log) = 1
    /\ gens[last.gen].commits = 1
    /\ Len(gens) = 2

\* The cursor the call made has been closed by the call.
ClosedOwn ==
    /\ cursor.st = "closed"
    /\ \E i \in Places("close") : last.log[i].cur = 1 /\ i = Len(last.log)

\* C19: when fetchall returns, when fetchone returns (a row or None), when
\* insert returns and when a fetch stream is exhausted, the cursor has been
\* closed; only a bare execute leaves its cursor open.
C19_CursorClosedAfterFetch ==
    /\ (last.op \in {"fetchall", "fetchone", "insert"} /\ last.exc = "") => ClosedOwn
    /\ Exhausted => cursor.st = "closed" /\ Places("close") = {Len(last.log)}
    /\ (last.op = "execute" /\ last.exc = "") => cursor.st = "open" /\ Places("close") = {}

C19_Witness ==
    /\ last.op = "fetchone"
    /\ last.exc = ""
    /\ last.val # NoneVal
    /\ ClosedOwn
    /\ gens # <<>>

\* C20: in every state reached by execute, fetch (fully or partly
\* consumed), fetchone, fetchall, insert and commit calls on one object, the
\* connection has at most one open cursor, the one the object names: when
\* execute makes a new cursor the one before is no longer open.
C20_OneLiveCursor ==
    /\ live <= 1
    /\ live = (IF cursor.st = "open" THEN 1 ELSE 0)

C20_Witness ==
    /\ last.op = "execute"
    /\ last.exc = ""
    /\ last.pre > 0
    /\ live = 1
    /\ \E k \in DOMAIN gens : gens[k].g.pc = "loop"


\* The statements of the last call that were passed to the driver, in order.
Passed == [i \in 1..Len(Events("execute")) |-> Events("execute")[i].stmt]

\* The last call is an execute, and a statement of it failed.
FailedStatement == last.op = "execute" /\ last.exc # "" /\ Places("execute") # {}

FailStep ==
    FailedStatement'
        => /\ last'.log[Len(last'.log)].ev = "execute"
           /\ Places("commit")' = {}
           /\ Places("rollback")' = {}
           /\ Passed' = SubSeq(split(last'.expr), 1, Len(Passed'))
           /\ \A w \in {ExecuteEach(NewCursor(World),
                                    SubSeq(split(last'.expr), 1, Len(Passed') - 1),
                                    last'.vals)} :
                  /\ w.exc = ""
                  /\ table' = w.table
                  /\ last'.exc = DrvExecute(w, Passed'[Len(Passed')], last'.vals).exc

\* C21: when a statement of a multi-statement execute fails, the driver's
\* error reaches the caller as it is, no statement after the failing one is
\* passed to the driver and no commit is issued, whatever autocommit and the
\* commit argument are; the statements before it have run and their effect
\* stays.
C21_FailureStopsExecute == [][FailStep]_vars

C21_Witness ==
    /\ FailedStatement
    /\ last.expr = <<"DELETE", ";", "\n", "BAD", ";", "\n", SelectAll>>
    /\ last.commit = "True"
    /\ autocommit
    /\ last.exc = "OperationalError"
    /\ Passed = <<<<"DELETE">>, <<"BAD">>>>
    /\ last.pre > 0
    /\ table = <<>>


\* The result set of the statement on the stored rows.
ResultOf(stmt) == [i \in DOMAIN table |-> DrvProject(stmt, table[i])]

\* The last call was next() on a generator that no other generator of its
\* object has interfered with.
CleanStep == last.op = "next" /\ last.pc # "done" /\ last.clean

\* The step gave the next row of the generator's own query.
OwnRow ==
    IF last.got < Len(ResultOf(last.expr[1]))
    THEN /\ last.exc = ""
         /\ last.val = DictVal(RowDict(DrvCols(last.expr[1]),
                                       ResultOf(last.expr[1])[last.got + 1]))
    ELSE last.exc = "StopIteration"

\* C22: every execute step replaces the object's one cursor, and streams of
\* independent objects do not affect each other's rows: a stream that no
\* other stream of its own object has run beside yields the rows of its own
\* query, whatever the streams of the other object do.  (Where two streams
\* of one object are interleaved, the first yields rows of the second's
\* result set under its own column names: the witness.)
C22_SharedCursor ==
    /\ CleanStep => OwnRow
    /\ (last.op = "next" /\ last.pc = "start")
           => /\ Places("cursor") = {1}
              /\ Places("execute") = {2}
              /\ WorldOf(last.db).cursor.desc \in {<<>>, DrvCols(last.expr[1])}

C22_Witness ==
    /\ last.op = "next"
    /\ ~last.clean
    /\ last.pc = "loop"
    /\ last.expr = <<SelectAll>>
    /\ last.exc = ""
    /\ \E t \in 2..(MaxRows + 1) :
           last.val = DictVal(<<[key |-> "id", val |-> PyFloat(t)]>>)
    /\ \E k \in DOMAIN gens :
           gens[k].db = last.db /\ gens[k].g.expr = <<SelectTstart>> /\ gens[k].g.pc = "loop"


\* The last call is an insert whose statement reached the driver.
Inserted == last.op = "insert" /\ Len(Events("execute")) = 1

\* The columns the statement names, and the value it binds to the i-th.
BoundCols == DrvInsertForm(Events("execute")[1].stmt).cols
BoundAt(i) ==
    IF Events("execute")[1].vals.shape = "tuple"
    THEN Events("execute")[1].vals.items[i]
    ELSE Lookup(Events("execute")[1].vals.items, "@" \o BoundCols[i])

\* The native scalar of a value that has the conversion, the value otherwise.
Native(v) == IF v.k = "npint" THEN PyInt(v.v) ELSE IF v.k = "npfloat" THEN PyFloat(v.v) ELSE v

\* insert never fails in the conversion, and binds one value per column.
ConversionIsSafe ==
    last.op = "insert"
        => /\ last.exc # "AttributeError"
           /\ Inserted \/ ReplaceRefused(last.replace)
           /\ Inserted => Len(Events("execute")[1].vals.items) = Len(last.row.items)
                          /\ Len(BoundCols) = Len(last.row.items)

\* C23 as stated: for every configuration, each value insert binds is the
\* native scalar of the row's value for that column when the value has the
\* conversion, and the row's value otherwise.
C23_NativeOrOriginal ==
    /\ ConversionIsSafe
    /\ Inserted => \A i \in DOMAIN BoundCols :
                       BoundAt(i) = Native(Lookup(last.row.items, BoundCols[i]))

\* C23, amended: with the numpy flag set each value insert binds is the
\* native scalar of the row's value for that column when the value has the
\* conversion, and the row's value otherwise; with the flag clear no
\* conversion is tried and the row's value is bound as it is.  The
\* conversion never makes insert fail and never moves a value to another
\* column.
C23_NativeOrOriginalIfNumpy ==
    /\ ConversionIsSafe
    /\ Inserted => \A i \in DOMAIN BoundCols :
                       BoundAt(i) = (IF numpy
                                     THEN Native(Lookup(last.row.items, BoundCols[i]))
                                     ELSE Lookup(last.row.items, BoundCols[i]))

C23_Witness ==
    /\ Inserted
    /\ numpy
    /\ last.row.rec
    /\ BoundCols = <<"aspect_mode", "id", "tstart">>
    /\ BoundAt(1).k = "str"
    /\ BoundAt(2).k = "int" /\ Lookup(last.row.items, "id").k = "npint"
    /\ BoundAt(3).k = "float" /\ Lookup(last.row.items, "tstart").k = "npfloat"


\* The object is as it was before the step.
Untouched == UNCHANGED <<conn, table, cursor, live>>

LazyStep ==
    /\ last'.op = "fetch"
           => /\ last'.log = <<>>
              /\ last'.exc = ""
              /\ last'.val = GeneratorVal
              /\ Untouched
              /\ gens'[Len(gens')].g.pc = "start"
    /\ last'.op = "close" => last'.log = <<>> /\ Untouched
    /\ last'.op = "next"
           => /\ Len(Events("execute"))' = (IF last'.pc = "start" THEN 1 ELSE 0)
              /\ Len(Events("cursor"))' = (IF last'.pc = "start" THEN 1 ELSE 0)
              /\ last'.pc = "start" => Events("execute")'[1].stmt = last'.expr
              /\ gens'[last'.gen].g.pc # "start"
    /\ last'.op = "fetchone"
           => Len(Events("execute"))' = 1 /\ Events("execute")'[1].stmt = last'.expr

\* C24: calling fetch passes no statement to the driver, issues no commit
\* and leaves the cursor as it was, and so does dropping the stream unused;
\* the statement is executed by the first next() and by no later one,
\* however many rows are consumed; fetchone executes it once.
C24_LazyExecute == [][LazyStep]_vars

C24_Witness ==
    /\ last.op = "close"
    /\ last.pc = "start"
    /\ last.expr = <<SelectAll>>
    /\ last.log = <<>>
    /\ cursor.st = "open"
    /\ table # <<>>


====
